---- MODULE Spec2Model ----
(***************************************************************************)
(* Iterative closest point registration, perception/                       *)
(* iterative_closest_point.py: FindNearestNeighbors,                        *)
(* CalcLeastSquaresTransform, RunICP and RepeatICPUntilGoodFit.             *)
(*                                                                         *)
(* Numbers are exact rationals <<n, d>> (d > 0, lowest terms).  An array is *)
(* a sequence of rows.  The point clouds of the model lie on the first      *)
(* coordinate axis, so that every Euclidean distance is rational and every  *)
(* cross-covariance matrix is diagonal; the rotations are 3x3 matrices all  *)
(* the same, and the reflection case of the solver is the code's.           *)
(***************************************************************************)
EXTENDS Integers, Sequences, FiniteSets, TLC

\* ------------------------------------------------------------------------
\* Exact arithmetic (the floats of the program, without rounding).
\* TLC passes an operator's arguments unevaluated; an operator that reads an
\* argument more than once binds it first, as x \in {argument}.

Abs(n) == IF n < 0 THEN 0 - n ELSE n

RECURSIVE GCD(_, _)
GCD(a, b) == IF b = 0 THEN a ELSE GCD(b, a % b)

\* n / d in lowest terms, with a positive denominator
Rat(n, d) ==
    CHOOSE r \in {IF y = 1 THEN <<x, 1>>
                  ELSE LET g == GCD(Abs(x), Abs(y))
                       IN  IF y < 0 THEN <<(0 - x) \div g, (0 - y) \div g>>
                           ELSE <<x \div g, y \div g>> : x \in {n}, y \in {d}} : TRUE

Q(n) == <<n, 1>>
Zero == <<0, 1>>
One == <<1, 1>>

RAdd(a, b) ==
    CHOOSE r \in {IF x[1] = 0 THEN y
                  ELSE IF y[1] = 0 THEN x
                  ELSE Rat(x[1] * y[2] + y[1] * x[2], x[2] * y[2]) : x \in {a}, y \in {b}} : TRUE
RNeg(a) == CHOOSE r \in {<<0 - x[1], x[2]>> : x \in {a}} : TRUE
RSub(a, b) == RAdd(a, RNeg(b))
RMul(a, b) ==
    CHOOSE r \in {IF x[1] = 0 \/ y[1] = 0 THEN Zero
                  ELSE Rat(x[1] * y[1], x[2] * y[2]) : x \in {a}, y \in {b}} : TRUE
RDivN(a, k) == CHOOSE r \in {Rat(x[1], x[2] * k) : x \in {a}} : TRUE
RAbs(a) == CHOOSE r \in {<<Abs(x[1]), x[2]>> : x \in {a}} : TRUE

\* a < b, comparing integer parts first so that no product overflows.
RLt(a, b) ==
    \E x \in {a}, y \in {b} :
        \/ x[1] \div x[2] < y[1] \div y[2]
        \/ /\ x[1] \div x[2] = y[1] \div y[2]
           /\ (x[1] % x[2]) * y[2] < (y[1] % y[2]) * x[2]
RLe(a, b) == ~RLt(b, a)
RGt(a, b) == RLt(b, a)

RECURSIVE ISqrtIn(_, _, _)
ISqrtIn(n, lo, hi) ==
    IF lo >= hi THEN lo
    ELSE LET mid == (lo + hi + 1) \div 2
         IN  IF mid * mid <= n THEN ISqrtIn(n, mid, hi) ELSE ISqrtIn(n, lo, mid - 1)
ISqrt(n) == ISqrtIn(n, 0, IF n < 46340 THEN n ELSE 46340)
\* The square root of a rational that is a square.
RSqrt(a) == CHOOSE r \in {<<ISqrt(x[1]), ISqrt(x[2])>> : x \in {a}} : TRUE

RECURSIVE RSumFrom(_, _)
RSumFrom(s, i) == IF i > Len(s) THEN Zero ELSE RAdd(s[i], RSumFrom(s, i + 1))
RSum(s) == CHOOSE r \in {RSumFrom(x, 1) : x \in {s}} : TRUE

\* ------------------------------------------------------------------------
\* numpy arrays: a matrix is a sequence of rows.

Rows(M) == Len(M)
Cols(M) == IF M = <<>> THEN 0 ELSE Len(M[1])
Transpose(M) ==
    CHOOSE r \in {[j \in 1..Cols(X) |-> [i \in 1..Rows(X) |-> X[i][j]]] : X \in {M}} : TRUE
\* np.dot of two matrices
Dot(A, B) ==
    CHOOSE r \in
        {[i \in 1..Rows(X) |->
            [j \in 1..Cols(Y) |-> RSum([k \in 1..Cols(X) |-> RMul(X[i][k], Y[k][j])])]] :
         X \in {A}, Y \in {B}} : TRUE
\* np.dot of a matrix and a vector
DotVec(A, v) ==
    CHOOSE r \in
        {[i \in 1..Rows(X) |-> RSum([k \in 1..Len(y) |-> RMul(X[i][k], y[k])])] :
         X \in {A}, y \in {v}} : TRUE
VSub(u, v) == CHOOSE r \in {[i \in 1..Len(x) |-> RSub(x[i], y[i])] : x \in {u}, y \in {v}} : TRUE
\* np.linalg.det of a 3x3 matrix
Det(M) ==
    CHOOSE r \in
        {RAdd(RSub(RMul(R[1][1], RSub(RMul(R[2][2], R[3][3]), RMul(R[2][3], R[3][2]))),
                   RMul(R[1][2], RSub(RMul(R[2][1], R[3][3]), RMul(R[2][3], R[3][1])))),
              RMul(R[1][3], RSub(RMul(R[2][1], R[3][2]), RMul(R[2][2], R[3][1])))) :
         R \in {M}} : TRUE
\* np.mean(x, axis=0) of an N x 3 array; np.mean of a vector
MeanRows(A) ==
    CHOOSE r \in
        {[j \in 1..Cols(P) |-> RDivN(RSum([i \in 1..Rows(P) |-> P[i][j]]), Rows(P))] :
         P \in {A}} : TRUE
Mean(v) == CHOOSE r \in {RDivN(RSum(x), Len(x)) : x \in {v}} : TRUE
\* Euclidean distance of two points
Dist(p, q) ==
    CHOOSE r \in {RSqrt(RSum([i \in 1..Len(x) |-> RMul(x[i], x[i])])) : x \in {VSub(p, q)}} : TRUE

\* ------------------------------------------------------------------------
\* FindNearestNeighbors (sklearn NearestNeighbors, n_neighbors = 1).

\* The distance from point p to the nearest point of cloud B.
NearestDistance(p, B) ==
    CHOOSE d \in {Dist(p, B[j]) : j \in 1..Len(B)} :
        \A j \in 1..Len(B) : RLe(d, Dist(p, B[j]))

\* Every (distances, indices) the search may return: the distances are
\* determined, an index is that of some nearest point (indices count from 1).
FindNearestNeighbors(point_cloud_A, point_cloud_B) ==
    UNION
    {{[distances |-> distances, indices |-> ix] :
         ix \in {f \in [1..Len(A) -> 1..Len(B)] :
                    \A i \in 1..Len(A) : Dist(A[i], B[f[i]]) = distances[i]}} :
     A \in {point_cloud_A}, B \in {point_cloud_B},
     distances \in {[i \in 1..Len(point_cloud_A) |->
                        NearestDistance(point_cloud_A[i], point_cloud_B)]}}

\* ------------------------------------------------------------------------
\* CalcLeastSquaresTransform.

\* number of dimensions
m == 3

Identity(n) == [i \in 1..n |-> [j \in 1..n |-> IF i = j THEN One ELSE Zero]]
Diag(a, b, c) == <<<<a, Zero, Zero>>, <<Zero, b, Zero>>, <<Zero, Zero, c>>>>
Signs == {Q(1), Q(0 - 1)}
\* The orthogonal matrices whose columns are the coordinate axes, signed.
SignMatrices == {Diag(a, b, c) : a \in Signs, b \in Signs, c \in Signs}

\* np.linalg.svd(H) for a diagonal H with |H11| >= |H22| >= |H33|: every
\* <<U, S, Vt>> with S the singular values in descending order, the singular
\* vectors along the axes and U . diag(S) . Vt = H.  The sign of a singular
\* vector whose singular value is 0 is not fixed by H.  U is the identity:
\* <<U . D, S, D . Vt>> is a decomposition for every sign matrix D, and gives
\* the caller the same Vt.T . U.T, before and after Vt[m - 1, :] *= -1.
SVD(M) ==
    UNION
    {IF RLe(S[2], S[1]) /\ RLe(S[3], S[2])
     THEN {usv \in {<<Identity(m), S, Vt>> : Vt \in SignMatrices} :
              \* U . diag(S) . Vt, a product of diagonal matrices
              Diag(RMul(RMul(usv[1][1][1], S[1]), usv[3][1][1]),
                   RMul(RMul(usv[1][2][2], S[2]), usv[3][2][2]),
                   RMul(RMul(usv[1][3][3], S[3]), usv[3][3][3])) = H}
     ELSE {} :
     H \in {M}, S \in {<<RAbs(M[1][1]), RAbs(M[2][2]), RAbs(M[3][3])>>}}

\* 1) translate points to their centroids, 2.1) H
CrossCovariance(point_cloud_A, point_cloud_B) ==
    CHOOSE r \in
        {Dot(Transpose([i \in 1..Len(A) |-> VSub(A[i], centroid_A)]),
             [i \in 1..Len(B) |-> VSub(B[i], centroid_B)]) :
         A \in {point_cloud_A}, B \in {point_cloud_B},
         centroid_A \in {MeanRows(point_cloud_A)},
         centroid_B \in {MeanRows(point_cloud_B)}} : TRUE

\* Vt[m - 1, :] *= -1
NegateLastRow(Vt) == [i \in 1..m |-> IF i = m THEN [j \in 1..m |-> RNeg(Vt[i][j])] ELSE Vt[i]]

RotationUncorrected(U, Vt) ==
    [R |-> Dot(Transpose(Vt), Transpose(U)), reflection |-> FALSE]

\* 2.1) rotation matrix, 2.2) special reflection case
Rotation(U, Vt) ==
    CHOOSE r \in
        {IF RLt(Det(R), Zero)
         THEN [R |-> Dot(Transpose(NegateLastRow(Vt)), Transpose(U)), reflection |-> TRUE]
         ELSE [R |-> R, reflection |-> FALSE] :
         R \in {Dot(Transpose(Vt), Transpose(U))}} : TRUE

\* 4) construct the homogeneous transformation
Homogeneous(R, t) ==
    [i \in 1..m + 1 |-> [j \in 1..m + 1 |->
        IF i <= m /\ j <= m THEN R[i][j]
        ELSE IF i <= m THEN t[i]
        ELSE IF j <= m THEN Zero ELSE One]]

\* Every result CalcLeastSquaresTransform may return, one per decomposition
\* the SVD may return: X_BA, and whether the reflection case was taken.
CalcLeastSquaresTransform(point_cloud_A, point_cloud_B) ==
    UNION
    {{CHOOSE r \in
         \* 3) translation vector
         {[X_BA |-> Homogeneous(rot.R, VSub(centroid_B, DotVec(rot.R, centroid_A))),
           reflection |-> rot.reflection] : rot \in {Rotation(usv[1], usv[3])}} : TRUE :
      usv \in SVD(H)} :
     centroid_A \in {MeanRows(point_cloud_A)},
     centroid_B \in {MeanRows(point_cloud_B)},
     H \in {CrossCovariance(point_cloud_A, point_cloud_B)}}

\* ------------------------------------------------------------------------
\* Bounds and inputs of the model.

\* max_tries ranges over 0..MaxTries; max_iterations over -1..MaxIterations
\* in a call of RunICP and over 0..MaxIterations in RepeatICPUntilGoodFit
MaxTries == 2
MaxIterations == 3

\* None (an argument left out)
None == <<>>
\* No value returned (yet)
NoResult == <<>>

\* An N x 3 point cloud on the first axis
Cloud(xs) == [i \in 1..Len(xs) |-> <<Q(xs[i]), Zero, Zero>>]

\* (point_cloud_A, point_cloud_B) of a call
Scenes ==
    { <<Cloud(<<2>>), Cloud(<<0, 4>>)>>,
      <<Cloud(<<0, 2>>), Cloud(<<1, 5>>)>>,
      <<Cloud(<<0, 1, 3>>), Cloud(<<4, 6, 5>>)>> }

\* A translation along the first axis
Translation(d) == Homogeneous(Identity(m), <<Q(d), Zero, Zero>>)
\* Half turns about the third and the first axis, as 4 x 4 homogeneous
\* matrices: the one turns the first axis over, the other leaves it in place.
HalfTurn == Homogeneous(Diag(Q(0 - 1), Q(0 - 1), One), <<Zero, Zero, Zero>>)
HalfTurnX == Homogeneous(Diag(One, Q(0 - 1), Q(0 - 1)), <<Zero, Zero, Zero>>)
\* The values tf.random_rotation_matrix() takes in the model
Rotations == {HalfTurn, HalfTurnX}

\* mean_error before the first run (RepeatICPUntilGoodFit)
InitialMeanError == 100000000

\* The init_guess of a call: left out, or a half turn and then a shift
InitGuesses == {None, Dot(Translation(1), HalfTurn)}
\* error_threshold: met by an exact fit only, by a mean error up to 1, and
\* not below the initial mean_error
ErrorThresholds == {Zero, One, Q(InitialMeanError)}
\* tolerance: 0, the default 1e-3, and 2
Tolerances == {Zero, <<1, 1000>>, Q(2)}

VARIABLES
    \* the call: which function, and its arguments
    call, point_cloud_A, point_cloud_B, error_threshold, max_tries,
    caller_guess, max_iterations, tolerance,
    \* the locals of RepeatICPUntilGoodFit
    X_BA, mean_error, num_runs, num_iters, init_guess, rand_R,
    \* the locals of the RunICP call in progress
    icp,
    \* where the program is, and what the call has returned
    pc, result,
    \* history: RunICP calls made, random rotations drawn, the mean errors of
    \* the iterations of the RunICP call in progress or last made, and of the
    \* last CalcLeastSquaresTransform call the determinant of the rotation
    \* returned and whether the reflection case was taken (None before), what
    \* the last RunICP call returned (None before), whether every RunICP call
    \* so far returned a mean error above error_threshold
    icp_calls, draws, errors, solved, returned, all_above

args == <<call, point_cloud_A, point_cloud_B, error_threshold, max_tries,
          caller_guess, max_iterations, tolerance>>
outer == <<X_BA, mean_error, num_runs, num_iters, init_guess, rand_R>>
history == <<icp_calls, draws, errors, solved, returned, all_above>>
vars == <<args, outer, icp, pc, result, history>>

NoFrame == <<>>

Init ==
    /\ call \in {"RunICP", "RepeatICPUntilGoodFit"}
    /\ \E scene \in Scenes : point_cloud_A = scene[1] /\ point_cloud_B = scene[2]
    /\ caller_guess \in InitGuesses
    /\ max_iterations \in (IF call = "RunICP" THEN 0 - 1 ELSE 0)..MaxIterations
    /\ tolerance \in Tolerances
    \* RunICP takes neither argument; one value stands for "not passed"
    /\ error_threshold \in IF call = "RunICP" THEN {Zero} ELSE ErrorThresholds
    /\ max_tries \in IF call = "RunICP" THEN {1} ELSE 0..MaxTries
    \* RepeatICPUntilGoodFit, lines 281-284
    /\ X_BA = Identity(4)
    /\ mean_error = Q(InitialMeanError)
    /\ num_runs = 0
    /\ num_iters = 0
    /\ init_guess = caller_guess
    /\ rand_R = None
    /\ icp = NoFrame
    /\ pc = IF call = "RunICP" THEN "RunICP" ELSE "while"
    /\ result = NoResult
    /\ icp_calls = 0
    /\ draws = 0
    /\ errors = <<>>
    /\ solved = None
    /\ returned = None
    /\ all_above = TRUE

\* X_BA[:m, :m]
RotationOf(X) == [i \in 1..m |-> [j \in 1..m |-> X[i][j]]]
\* What the history keeps of a result of CalcLeastSquaresTransform
Solved(ls) == [det |-> Det(RotationOf(ls.X_BA)), reflection |-> ls.reflection]

\* A 4 x N array of ones with the cloud's transpose in its first m rows
HomogeneousCopy(P) == [i \in 1..m + 1 |-> [j \in 1..Len(P) |-> IF i <= m THEN P[j][i] ELSE One]]
\* point_cloud_Ah[:m, :].T
Points(Ph) == Transpose(SubSeq(Ph, 1, m))

\* RepeatICPUntilGoodFit, line 286: the loop test, and the return of line 301
\* when it fails.
RepeatWhile ==
    /\ pc = "while"
    /\ IF RGt(mean_error, error_threshold)
       THEN /\ pc' = "RunICP"
            /\ UNCHANGED result
       ELSE /\ pc' = "done"
            /\ result' = <<X_BA, mean_error, num_runs>>
    /\ UNCHANGED <<args, outer, icp, history>>

\* RunICP, lines 194-213: entry, with init_guess the argument passed
RunICPEnter ==
    /\ pc = "RunICP"
    /\ icp' = [X_BA |-> Identity(4),
               mean_error |-> Zero,
               num_iters |-> 0,
               point_cloud_Ah |->
                   IF init_guess # None
                   THEN Dot(init_guess, HomogeneousCopy(point_cloud_A))
                   ELSE HomogeneousCopy(point_cloud_A),
               prev_error |-> Zero]
    /\ pc' = "for"
    /\ icp_calls' = icp_calls + 1
    /\ errors' = <<>>
    /\ UNCHANGED <<args, outer, result, draws, solved, returned, all_above>>

ConvergedOrEqual(prev_error, error, tol) == RLe(RAbs(RSub(prev_error, error)), tol)

\* if np.abs(prev_error - mean_error) < tolerance
Converged(prev_error, error, tol) == RLt(RAbs(RSub(prev_error, error)), tol)

\* RunICP, lines 215-233: one iteration of the loop
RunICPIterate ==
    /\ pc = "for"
    /\ icp.num_iters + 1 <= max_iterations
    /\ \E nn \in FindNearestNeighbors(Points(icp.point_cloud_Ah), point_cloud_B) :
       \E ls \in CalcLeastSquaresTransform(
                     Points(icp.point_cloud_Ah),
                     [i \in 1..Len(nn.indices) |-> point_cloud_B[nn.indices[i]]]) :
          LET error == Mean(nn.distances)
              break == Converged(icp.prev_error, error, tolerance)
          IN  /\ icp' = [icp EXCEPT !.num_iters = @ + 1,
                                    !.point_cloud_Ah = Dot(ls.X_BA, @),
                                    !.mean_error = error,
                                    !.prev_error = IF break THEN @ ELSE error]
              /\ pc' = IF break THEN "final" ELSE "for"
              /\ errors' = Append(errors, error)
              /\ solved' = Solved(ls)
    /\ UNCHANGED <<args, outer, result, icp_calls, draws, returned, all_above>>

\* RunICP, line 215: range(1, max_iterations + 1) is exhausted
RunICPExhausted ==
    /\ pc = "for"
    /\ icp.num_iters + 1 > max_iterations
    /\ pc' = "final"
    /\ UNCHANGED <<args, outer, icp, result, history>>

\* RunICP, lines 236-238: the final transformation and the return, which
\* ends the frame; in RepeatICPUntilGoodFit the assignment of line 287 and
\* num_runs += 1.
RunICPReturn ==
    /\ pc = "final"
    /\ \E ls \in CalcLeastSquaresTransform(point_cloud_A, Points(icp.point_cloud_Ah)) :
          /\ icp' = NoFrame
          /\ solved' = Solved(ls)
          /\ returned' = <<ls.X_BA, icp.mean_error, icp.num_iters>>
          /\ all_above' = (all_above /\ RGt(icp.mean_error, error_threshold))
          /\ IF call = "RunICP"
             THEN /\ result' = <<ls.X_BA, icp.mean_error, icp.num_iters>>
                  /\ pc' = "done"
                  /\ UNCHANGED outer
             ELSE /\ X_BA' = ls.X_BA
                  /\ mean_error' = icp.mean_error
                  /\ num_iters' = icp.num_iters
                  /\ num_runs' = num_runs + 1
                  /\ pc' = "if"
                  /\ UNCHANGED <<result, init_guess, rand_R>>
    /\ UNCHANGED <<args, icp_calls, draws, errors>>

\* init_guess = np.dot(rand_R, X_BA)
NextGuess(R, X) == Dot(R, X)

BreakBelow(error, threshold, runs, tries) == RLt(error, threshold) \/ runs >= tries

\* if mean_error <= error_threshold or num_runs >= max_tries: break
Break(error, threshold, runs, tries) == RLe(error, threshold) \/ runs >= tries

\* RepeatICPUntilGoodFit, lines 296-301: stop and return, or draw a random
\* rotation for the next run's initial guess.
RepeatIf ==
    /\ pc = "if"
    /\ IF Break(mean_error, error_threshold, num_runs, max_tries)
       THEN /\ pc' = "done"
            /\ result' = <<X_BA, mean_error, num_runs>>
            /\ UNCHANGED <<init_guess, rand_R, draws>>
       ELSE \E R \in Rotations :
               /\ rand_R' = R
               /\ init_guess' = NextGuess(R, X_BA)
               /\ draws' = draws + 1
               /\ pc' = "while"
               /\ UNCHANGED result
    /\ UNCHANGED <<args, X_BA, mean_error, num_runs, num_iters, icp, icp_calls,
                   errors, solved, returned, all_above>>

Next ==
    \/ RepeatWhile
    \/ RunICPEnter
    \/ RunICPIterate
    \/ RunICPExhausted
    \/ RunICPReturn
    \/ RepeatIf

Spec == Init /\ [][Next]_vars

\* ------------------------------------------------------------------------
\* Properties.

Repeating == call = "RepeatICPUntilGoodFit"
Done == pc = "done"
\* A RunICP call is in progress
Running == icp # NoFrame
\* A RunICP call has returned and none is in progress
Returned == returned # None /\ ~Running

\* C1: RepeatICPUntilGoodFit never makes more than max_tries RunICP calls,
\* whatever error_threshold and max_tries are.
C1_RunsWithinMaxTries == Repeating => icp_calls <= max_tries

\* C2: RunICP never executes more than max_iterations iterations and never
\* returns a num_iters above max_iterations.
C2_IterationsWithinMaxIterations ==
    Returned => Len(errors) <= max_iterations /\ returned[3] <= max_iterations

C4_InvalidArgument ==
    ((~Repeating /\ max_iterations <= 0) \/ (Repeating /\ max_tries <= 0))
        => /\ result = NoResult
           /\ errors = <<>>
           /\ Repeating => icp_calls = 0

\* C5: with max_tries >= 1, when every RunICP call returns a mean error
\* above error_threshold, RepeatICPUntilGoodFit returns after exactly
\* max_tries runs, with the transform and mean error of the last run and
\* num_runs = max_tries.
C5_BudgetExhausted ==
    (Repeating /\ Done /\ max_tries >= 1 /\ all_above)
        => /\ icp_calls = max_tries
           /\ returned # None
           /\ result = <<returned[1], returned[2], max_tries>>

\* C6: with max_tries >= 1 and any error_threshold, RepeatICPUntilGoodFit
\* calls RunICP at least once and returns num_runs = the number of RunICP
\* calls completed, >= 1, with the transform and mean error of a run.
C6_AtLeastOneRun ==
    (Repeating /\ Done /\ max_tries >= 1)
        => /\ icp_calls >= 1
           /\ result[3] = icp_calls
           /\ result[3] >= 1
           /\ returned # None
           /\ result[1] = returned[1] /\ result[2] = returned[2]

\* A 4 x 4 matrix is a proper rotation and a translation: the determinant
\* of its rotation block is +1 and its last row is (0, 0, 0, 1).
ProperTransform(X) ==
    /\ Det(RotationOf(X)) = One
    /\ X[m + 1] = <<Zero, Zero, Zero, One>>

\* C7: the rotation of every transform CalcLeastSquaresTransform returns has
\* determinant +1, also when the reflection case is taken, and so has every
\* transform RunICP and RepeatICPUntilGoodFit return.
C7_ProperRotation ==
    /\ solved # None => solved.det = One
    /\ returned # None => ProperTransform(returned[1])
    /\ result # NoResult => ProperTransform(result[1])
    /\ ProperTransform(X_BA)

C7_Witness ==
    /\ Done /\ solved # None /\ solved.reflection
    /\ solved.det = One /\ ProperTransform(result[1])

\* |mean error of iteration k - 1  -  mean error of iteration k| < tolerance,
\* the mean error before the first iteration being 0
StopsAt(k) ==
    LET before == IF k = 1 THEN Zero ELSE errors[k - 1]
        d == RSub(before, errors[k])
    IN  IF RLt(d, Zero) THEN RLt(RNeg(d), tolerance) ELSE RLt(d, tolerance)

\* C8: with max_iterations >= 1, RunICP stops at the first iteration whose
\* mean error differs from the one before by less than tolerance, or after
\* iteration max_iterations; num_iters is the number of iterations executed
\* and is >= 1; with tolerance 0 it is max_iterations.
C8_StopsAtFirstConvergence ==
    (Returned /\ max_iterations >= 1)
        => /\ returned[3] = Len(errors)
           /\ returned[3] >= 1
           /\ \A k \in 1..(returned[3] - 1) : ~StopsAt(k)
           /\ StopsAt(returned[3]) \/ returned[3] = max_iterations
           /\ tolerance = Zero => returned[3] = max_iterations

C8_Witness ==
    /\ Returned /\ max_iterations > 2
    /\ returned[3] = 2 /\ ~StopsAt(1) /\ StopsAt(2)

\* C9: run 1 uses the caller's init_guess, run n + 1 uses rand_R . X_BA of
\* run n; one rotation is drawn between two consecutive runs and none after
\* the last, so that the number of draws is num_runs - 1.
C9_RandomRestart ==
    Repeating
        => /\ (Running /\ icp_calls = 1) => init_guess = caller_guess
           /\ (Running /\ icp_calls > 1) => init_guess = Dot(rand_R, returned[1])
           /\ Running => draws = icp_calls - 1
           /\ Done => draws = result[3] - 1

\* The mean distance from the points of point_cloud_A, transformed by X, to
\* their nearest neighbours in point_cloud_B
MeanErrorOf(X) ==
    LET moved == Points(Dot(X, HomogeneousCopy(point_cloud_A)))
    IN  Mean([i \in 1..Len(moved) |-> NearestDistance(moved[i], point_cloud_B)])

\* C10: the mean_error RunICP returns is the mean distance from the points
\* of point_cloud_A, transformed by the X_BA it returns, to their nearest
\* neighbours in point_cloud_B (stated for the calls with max_iterations >= 1,
\* where the loop has set mean_error).
C10_ErrorOfReturnedTransform ==
    (returned # None /\ max_iterations >= 1) => returned[2] = MeanErrorOf(returned[1])

\* ------------------------------------------------------------------------
\* What the program keeps where the properties above fail.

\* The runs stay within max_tries, or there is one run.
RunsWithinMaxTriesOrOne ==
    Repeating => icp_calls <= (IF max_tries < 1 THEN 1 ELSE max_tries)

\* The iterations stay within max_iterations, or there is none.
IterationsWithinMaxIterationsOrNone ==
    Returned =>
        /\ Len(errors) <= (IF max_iterations < 0 THEN 0 ELSE max_iterations)
        /\ returned[3] = Len(errors)

\* Once a run has been made: the result is the last run's, num_runs counts
\* the runs, and the budget is used up when no run met error_threshold.
AfterARun ==
    (Repeating /\ Done /\ icp_calls >= 1)
        => /\ result = <<returned[1], returned[2], icp_calls>>
           /\ draws = icp_calls - 1
           /\ (all_above /\ max_tries >= 1) => icp_calls = max_tries

\* No run is made exactly when error_threshold is not below the initial
\* mean_error, and the result is then the initial values.
NoRun ==
    (Repeating /\ Done /\ icp_calls = 0)
        => /\ RLe(Q(InitialMeanError), error_threshold)
           /\ result = <<Identity(m + 1), Q(InitialMeanError), 0>>
           /\ draws = 0

\* The mean_error RunICP returns is that of the points before the last
\* iteration moved them: the last entry of the history, or 0 with no iteration.
ErrorBeforeLastUpdate ==
    Returned =>
        returned[2] = (IF errors = <<>> THEN Zero ELSE errors[Len(errors)])

====
